---- MODULE Spec2Model ----
(***************************************************************************)
(* State-machine model of the ChatSystem widget of chat-system.js:         *)
(* lifecycle (open / close / destroy), message store (loadMessages,        *)
(* sendMessage), poll scheduler (startPolling / stopPolling), renderer     *)
(* (renderMessages, escapeHtml, formatTime) and the transient error notice *)
(* (showError).                                                            *)
(*                                                                         *)
(* JavaScript runs the widget on one thread: a handler runs atomically up  *)
(* to its next `await`.  Each action below is one such run-to-completion   *)
(* segment.  The two consecutive awaits of loadMessages (fetch, then       *)
(* response.json()) touch no widget state in between and are one           *)
(* suspension here.                                                        *)
(***************************************************************************)
EXTENDS Integers, Sequences, FiniteSets, Bags, TLC

\* ---------------------------------------------------------------- bounds
MaxInFlight == 2     \* outstanding network requests (GET and POST together)
MaxNotices  == 1     \* error notices present in the document at once
MaxTimers   == 2     \* interval-timer handles the host can hand out
MaxDraftLen == 2     \* characters the user types into the input
MaxClockStep == 2    \* half minutes the clock is moved past its first reading

\* ------------------------------------------------------- program constants
DefaultMaxMessageLength == 1000
MsPerMinute    == 60000          \* formatTime: diffMs / 60000
MinutesPerHour == 60             \* formatTime: diffMins < 60, diffMins / 60
HoursPerDay    == 24             \* formatTime: diffHours < 24

\* ---------------------------------------------------------------- values
Null     == "null"               \* JavaScript null
ConvIds  == {"A", "B"}           \* offer identifiers the host page opens
Viewers  == {"u1"}               \* currentUser.id values the host page passes
Absent   == -1                   \* options.maxMessageLength not supplied
OptionMaxes == {1}               \* options.maxMessageLength at construction
NoTimer  == 0                    \* this.pollingInterval = null (falsy handle)

DraftChars == {" ", "a"}
RECURSIVE SeqsUpTo(_, _)
SeqsUpTo(S, n) ==
    IF n = 0 THEN {<<>>}
    ELSE LET shorter == SeqsUpTo(S, n - 1)
         IN  shorter \cup {Append(s, c) : s \in shorter, c \in S}
Drafts == SeqsUpTo(DraftChars, MaxDraftLen)

\* What GET /messages?offer_id=c can answer: the history of conversation c
\* at some moment (empty, or two messages).  Texts are sequences of
\* characters; the second message carries markup-significant characters in
\* both sender name and text.
Msg1(c) == [offer_id |-> c, sender_id |-> "u1",
            sender_name |-> <<"K">>, message_text |-> <<c, "1">>]
Msg2(c) == [offer_id |-> c, sender_id |-> "u2",
            sender_name |-> <<"<", "b", ">">>,
            message_text |-> <<"<", c, ">">>]
ServerLists(c) ==
    IF c \in ConvIds THEN {<<>>, <<Msg1(c), Msg2(c)>>}
    ELSE {<<>>}

\* Instants are milliseconds since the epoch, as Date holds them.  The
\* clock readings, the ages formatTime is asked about (around every
\* threshold, and a timestamp ahead of the clock) and the timestamps.
MsPerDay   == HoursPerDay * MinutesPerHour * MsPerMinute
FirstNow   == 3 * MsPerDay
Nows       == {FirstNow + k * (MsPerMinute \div 2) : k \in 0..MaxClockStep}
AgeMinutes == {0, 1, 5, 59, 60, 90, 119, 120, 1439, 1440, 2880}
AgeOffsets == {-1, 0, 1, MsPerMinute \div 2}
Ages       == {m * MsPerMinute + d : m \in AgeMinutes, d \in AgeOffsets}
Timestamps == {n - a : n \in Nows, a \in Ages}
NotFormatted == [timestamp |-> 0, now |-> 0, label |-> [text |-> "", n |-> 0]]

\* ----------------------------------------------------------------- state
VARIABLES
    modal,            \* TRUE iff document.getElementById(modalId) found it
    maxMessageLength, \* this.options.maxMessageLength
    thrown,           \* an exception reached a caller of the widget's API
    display,          \* this.modal.style.display
    offerId,          \* this.offerId
    currentUser,      \* this.currentUser.id
    messages,         \* this.messages
    view,             \* this.messagesContainer.innerHTML
    pollingInterval,  \* this.pollingInterval
    timers,           \* interval timers active in the host
    inflight,         \* bag of loadMessages calls awaiting their response
    sending,          \* the sendMessage call in progress, if any
    draft,            \* this.messageInput.value
    disabled,         \* messageInput.disabled and sendButton.disabled
    focused,          \* the input holds the focus: messageInput.focus() gave it
                      \* (or the user typing), disabling the input takes it
    notices,          \* .chat-error elements in document.body, oldest first
    formatted,        \* the last formatTime call: its argument, the clock it
                      \* read and the label it returned
    lastSend          \* observation only: "empty" while the handler that ran
                      \* last is a sendMessage call that returned at line 149
                      \* (it leaves no other trace), "none" otherwise

vars == <<modal, maxMessageLength, thrown, display, offerId, currentUser,
          messages, view, pollingInterval, timers, inflight, sending,
          draft, disabled, focused, notices, formatted, lastSend>>

config  == <<modal, maxMessageLength>>
convo   == <<offerId, currentUser, display>>
store   == <<messages, view>>
poller  == <<pollingInterval, timers>>
sender  == <<sending, draft, disabled, focused>>

NoSend == [phase |-> "idle"]

\* Requests on the wire: every awaited loadMessages plus a POST in progress.
Outstanding == BagCardinality(inflight) + (IF sending.phase = "post" THEN 1 ELSE 0)

\* ------------------------------------------------------------ constructor
\* this.options: the default, then `...options` overrides it when supplied.
ConfiguredMax(opt) ==
    LET dflt == IF opt = Absent \/ opt = 0 THEN DefaultMaxMessageLength
                ELSE opt
    IN  IF opt = Absent THEN dflt ELSE opt

InitialView == [kind |-> "initial", entries |-> <<>>]

Init ==
    /\ modal \in BOOLEAN
    /\ \E opt \in OptionMaxes : maxMessageLength = ConfiguredMax(opt)
    /\ thrown = FALSE
    /\ display = "none"
    /\ offerId = Null
    /\ currentUser = Null
    /\ messages = <<>>
    /\ view = InitialView
    /\ pollingInterval = NoTimer
    /\ timers = {}
    /\ inflight = EmptyBag
    /\ sending = NoSend
    /\ draft = <<>>
    /\ disabled = FALSE
    /\ focused = FALSE
    /\ notices = <<>>
    /\ formatted = NotFormatted
    /\ lastSend = "none"

\* --------------------------------------------------------------- helpers
IsSpace(c) == c = " "

\* String.prototype.trim: drop leading and trailing whitespace.
RECURSIVE TrimLeft(_)
TrimLeft(s) ==
    IF s # <<>> /\ IsSpace(Head(s)) THEN TrimLeft(Tail(s)) ELSE s
RECURSIVE TrimRight(_)
TrimRight(s) ==
    IF s # <<>> /\ IsSpace(s[Len(s)])
    THEN TrimRight(SubSeq(s, 1, Len(s) - 1)) ELSE s
Trim(s) == TrimRight(TrimLeft(s))

\* escapeHtml: div.textContent = text; return div.innerHTML.  The HTML
\* serializer replaces the three markup-significant characters of text.
EscapeChar(c) ==
    CASE c = "&" -> "&amp;"
      [] c = "<" -> "&lt;"
      [] c = ">" -> "&gt;"
      [] OTHER   -> c
escapeHtml(text) == [i \in 1..Len(text) |-> EscapeChar(text[i])]

\* One .chat-message element of the template of renderMessages.
RenderEntry(msg, viewer) ==
    [class   |-> IF msg.sender_id = viewer THEN "chat-message-sent"
                 ELSE "chat-message-received",
     sender  |-> escapeHtml(msg.sender_name),
     content |-> msg.message_text]

\* renderMessages without its empty-state branch: an empty collection
\* renders as a list without entries.
renderMessagesNoPlaceholder(old, msgs, viewer) ==
    IF ~modal THEN old
    ELSE [kind |-> "list",
          entries |-> [i \in 1..Len(msgs) |-> RenderEntry(msgs[i], viewer)]]

\* renderMessages: the markup assigned to messagesContainer.innerHTML
\* (`old` stays when the widget has no messages container).
renderMessages(old, msgs, viewer) ==
    IF ~modal THEN old
    ELSE IF Len(msgs) = 0
    THEN [kind |-> "chat-empty", entries |-> <<>>]
    ELSE [kind |-> "list",
          entries |-> [i \in 1..Len(msgs) |-> RenderEntry(msgs[i], viewer)]]

\* showError: append a .chat-error element and arm its 3000 ms timeout.
LoadErrorText == <<"Failed to load messages. Please try again.">>
SendErrorText == <<"Failed to send message. Please try again.">>
TooLongText(max) == <<"Message is too long. Maximum ", max, " characters.">>
showError(ns, text) == Append(ns, [text |-> text, phase |-> "shown"])

\* The labels of formatTime: 'Just now', `${n}m ago`, `${n}h ago`, and the
\* calendar date of toLocaleDateString (the day the instant falls on).
JustNow        == [text |-> "Just now", n |-> 0]
Ago(n, unit)   == [text |-> unit, n |-> n]
DateLabel(t)   == [text |-> "date", n |-> t \div MsPerDay]

\* Math.floor(a / b) for b > 0: \div rounds towards minus infinity too.
Floor(a, b) == a \div b

\* formatTime rounding to the nearest minute and hour (Math.round, halves
\* up) instead of flooring.
formatTimeRounded(timestamp, now) ==
    LET Round(a, b) == (2 * a + b) \div (2 * b)
        diffMs   == now - timestamp
        diffMins == Round(diffMs, MsPerMinute)
    IN  IF diffMins < 1 THEN JustNow
        ELSE IF diffMins < MinutesPerHour THEN Ago(diffMins, "m ago")
        ELSE LET diffHours == Round(diffMins, MinutesPerHour)
             IN  IF diffHours < HoursPerDay THEN Ago(diffHours, "h ago")
                 ELSE DateLabel(timestamp)

\* formatTime(timestamp), with the clock reading of `new Date()` as `now`.
formatTime(timestamp, now) ==
    LET diffMs   == now - timestamp
        diffMins == Floor(diffMs, MsPerMinute)
    IN  IF diffMins < 1 THEN JustNow
        ELSE IF diffMins < MinutesPerHour THEN Ago(diffMins, "m ago")
        ELSE LET diffHours == Floor(diffMins, MinutesPerHour)
             IN  IF diffHours < HoursPerDay THEN Ago(diffHours, "h ago")
                 ELSE DateLabel(timestamp)

\* setInterval: the host hands out a handle that no active timer uses.
FreshTimer(ts) == CHOOSE t \in (1..MaxTimers) \ ts :
                      \A u \in (1..MaxTimers) \ ts : t <= u

\* stopPolling, as the resulting (pollingInterval, timers).
stopPolling(pi, ts) ==
    IF pi # NoTimer
    THEN [pollingInterval |-> NoTimer, timers |-> ts \ {pi}]
    ELSE [pollingInterval |-> pi, timers |-> ts]

\* startPolling without its leading stopPolling(): the old timer keeps
\* running beside the new one.
startPollingNoStop(pi, ts) ==
    LET handle == FreshTimer(ts)
    IN  [pollingInterval |-> handle, timers |-> ts \cup {handle}]

\* startPolling, as the resulting (pollingInterval, timers).
startPolling(pi, ts) ==
    LET stopped == stopPolling(pi, ts)
        handle  == FreshTimer(stopped.timers)
    IN  [pollingInterval |-> handle,
         timers |-> stopped.timers \cup {handle}]

\* The request loadMessages puts on the wire: the URL carries this.offerId
\* as it is when the call starts.
LoadRequest(kind, id) == [kind |-> kind, offer_id |-> id]
LoadRequests == {LoadRequest(kind, id) :
                    kind \in {"open", "poll", "send"}, id \in ConvIds \cup {Null}}
Issue(req)   == inflight (+) SetToBag({req})
Settle(req)  == inflight (-) SetToBag({req})

\* ------------------------------------------------------------- lifecycle
\* open() starting the poll timer before it awaits its initial refresh.
OpenPollsAtOnce(id, viewer) ==
    /\ modal
    /\ Outstanding < MaxInFlight
    /\ offerId' = id
    /\ currentUser' = viewer
    /\ display' = "flex"
    /\ inflight' = Issue(LoadRequest("open", id))
    /\ LET started == startPolling(pollingInterval, timers)
       IN  /\ pollingInterval' = started.pollingInterval
           /\ timers' = started.timers
    /\ lastSend' = "none"
    /\ UNCHANGED <<config, formatted, thrown, store, sender, notices>>

\* open(offerId, currentUser, chatTitle), up to `await this.loadMessages()`.
\* Without the container, line 92 dereferences null after the two
\* assignments and the returned promise rejects.
Open(id, viewer) ==
    /\ modal
    /\ Outstanding < MaxInFlight
    /\ offerId' = id
    /\ currentUser' = viewer
    /\ display' = "flex"
    /\ inflight' = Issue(LoadRequest("open", id))
    /\ lastSend' = "none"
    /\ UNCHANGED <<config, formatted, thrown, store, poller, sender, notices>>

\* open() without its container: see Open.
OpenInert(id, viewer) ==
    /\ ~modal
    /\ offerId' = id
    /\ currentUser' = viewer
    /\ thrown' = TRUE
    /\ lastSend' = "none"
    /\ UNCHANGED <<config, formatted, display, store, poller, inflight, sender, notices>>

\* close().  Without the container, line 110 throws before anything else.
Close ==
    /\ modal
    /\ LET stopped == stopPolling(pollingInterval, timers)
       IN  /\ pollingInterval' = stopped.pollingInterval
           /\ timers' = stopped.timers
    /\ display' = "none"
    /\ offerId' = Null
    /\ draft' = <<>>
    /\ lastSend' = "none"
    /\ UNCHANGED <<config, formatted, thrown, currentUser, store, inflight, sending,
                   disabled, focused, notices>>

CloseInert ==
    /\ ~modal
    /\ thrown' = TRUE
    /\ lastSend' = "none"
    /\ UNCHANGED <<config, formatted, convo, store, poller, inflight, sender, notices>>

\* destroy(): stopPolling(), then close().
Destroy ==
    /\ modal
    /\ LET first   == stopPolling(pollingInterval, timers)
           stopped == stopPolling(first.pollingInterval, first.timers)
       IN  /\ pollingInterval' = stopped.pollingInterval
           /\ timers' = stopped.timers
    /\ display' = "none"
    /\ offerId' = Null
    /\ draft' = <<>>
    /\ lastSend' = "none"
    /\ UNCHANGED <<config, formatted, thrown, currentUser, store, inflight, sending,
                   disabled, focused, notices>>

DestroyInert ==
    /\ ~modal
    /\ LET first == stopPolling(pollingInterval, timers)
       IN  /\ pollingInterval' = first.pollingInterval
           /\ timers' = first.timers
    /\ thrown' = TRUE
    /\ lastSend' = "none"
    /\ UNCHANGED <<config, formatted, convo, store, inflight, sender, notices>>

\* ---------------------------------------------------------- poll scheduler
\* The setInterval callback of startPolling: an active timer fires and
\* calls loadMessages, which suspends at its fetch.
PollTick ==
    /\ timers # {}
    /\ Outstanding < MaxInFlight
    /\ inflight' = Issue(LoadRequest("poll", offerId))
    /\ lastSend' = "none"
    /\ UNCHANGED <<config, formatted, thrown, convo, store, poller, sender, notices>>

\* startPolling() and stopPolling() called by the host page directly.
StartPollingCall ==
    /\ LET started == startPolling(pollingInterval, timers)
       IN  /\ pollingInterval' = started.pollingInterval
           /\ timers' = started.timers
    /\ lastSend' = "none"
    /\ UNCHANGED <<config, formatted, thrown, convo, store, inflight, sender, notices>>

StopPollingCall ==
    /\ LET stopped == stopPolling(pollingInterval, timers)
       IN  /\ pollingInterval' = stopped.pollingInterval
           /\ timers' = stopped.timers
    /\ lastSend' = "none"
    /\ UNCHANGED <<config, formatted, thrown, convo, store, inflight, sender, notices>>

\* ----------------------------------------------------------- message store
\* messageInput.focus(): a disabled control does not take the focus.
focusInput(isDisabled, hadFocus) == IF isDisabled THEN hadFocus ELSE TRUE

\* What the caller of loadMessages does once the call returns: open starts
\* polling and focuses the input, a timer tick does nothing, sendMessage
\* runs its finally block.
AfterLoad(kind) ==
    /\ IF kind = "open"
       THEN LET started == startPolling(pollingInterval, timers)
            IN  /\ pollingInterval' = started.pollingInterval
                /\ timers' = started.timers
       ELSE UNCHANGED poller
    /\ CASE kind = "open" ->
              /\ focused' = focusInput(disabled, focused)
              /\ UNCHANGED <<sending, draft, disabled>>
         [] kind = "send" ->
              /\ disabled' = FALSE
              /\ focused' = focusInput(FALSE, focused)
              /\ sending' = NoSend
              /\ UNCHANGED draft
         [] OTHER -> UNCHANGED sender

\* loadMessages dropping a response when a fetch issued later is still in
\* flight (the last issued fetch wins, not the last completed one).
LoadMessagesOkUnlessNewer(req, data) ==
    /\ BagIn(req, inflight)
    /\ data \in ServerLists(req.offer_id)
    /\ inflight' = Settle(req)
    /\ IF Settle(req) = EmptyBag
       THEN /\ messages' = data
            /\ view' = renderMessages(view, data, currentUser)
       ELSE UNCHANGED store
    /\ AfterLoad(req.kind)
    /\ lastSend' = "none"
    /\ UNCHANGED <<config, formatted, thrown, convo, notices>>

\* loadMessages, the response is ok and parses: lines 134-136.
LoadMessagesOk(req, data) ==
    /\ BagIn(req, inflight)
    /\ data \in ServerLists(req.offer_id)
    /\ inflight' = Settle(req)
    /\ messages' = data
    /\ view' = renderMessages(view, data, currentUser)
    /\ AfterLoad(req.kind)
    /\ lastSend' = "none"
    /\ UNCHANGED <<config, formatted, thrown, convo, notices>>

\* loadMessages giving up on a failure: the catch block also stops polling
\* and drops the collection.
LoadMessagesFailGivesUp(req) ==
    /\ BagIn(req, inflight)
    /\ Len(notices) < MaxNotices
    /\ inflight' = Settle(req)
    /\ notices' = showError(notices, LoadErrorText)
    /\ messages' = <<>>
    /\ view' = view
    /\ LET stopped == stopPolling(pollingInterval, timers)
       IN  /\ pollingInterval' = stopped.pollingInterval
           /\ timers' = stopped.timers
    /\ IF req.kind = "send"
       THEN /\ disabled' = FALSE /\ sending' = NoSend
            /\ focused' = TRUE /\ UNCHANGED draft
       ELSE UNCHANGED sender
    /\ lastSend' = "none"
    /\ UNCHANGED <<config, formatted, thrown, convo>>

\* loadMessages, the fetch rejects or the response is not ok: the catch
\* block of lines 137-140.
LoadMessagesFail(req) ==
    /\ BagIn(req, inflight)
    /\ Len(notices) < MaxNotices
    /\ inflight' = Settle(req)
    /\ notices' = showError(notices, LoadErrorText)
    /\ AfterLoad(req.kind)
    /\ lastSend' = "none"
    /\ UNCHANGED <<config, formatted, thrown, convo, store>>

\* -------------------------------------------------------------------- send
\* The user edits the input, one keystroke at a time (a character, or
\* Backspace): only a visible, enabled control takes input.
TypeDraft(d) ==
    /\ modal
    /\ display = "flex"
    /\ ~disabled
    /\ d \in Drafts
    /\ \/ \E c \in DraftChars : d = Append(draft, c)
       \/ draft # <<>> /\ d = SubSeq(draft, 1, Len(draft) - 1)
    /\ draft' = d
    /\ focused' = TRUE
    /\ UNCHANGED <<lastSend, config, formatted, thrown, convo, store, poller, inflight,
                   sending, disabled, notices>>

\* The listeners of setupEventListeners are the callers of sendMessage: a
\* click on the send button or Enter in the input, neither of which the
\* document delivers to a hidden or disabled control.
CanSubmit == modal /\ display = "flex" /\ ~disabled

\* sendMessage validating the raw input value instead of the trimmed one.
SendVerdictNoTrim(value, max) ==
    IF value = <<>> THEN "empty"
    ELSE IF Len(value) > max THEN "tooLong"
    ELSE "post"

\* sendMessage with the length check off by one.
SendVerdictOffByOne(value, max) ==
    LET messageText == Trim(value)
    IN  IF messageText = <<>> THEN "empty"
        ELSE IF Len(messageText) > max + 1 THEN "tooLong"
        ELSE "post"

\* The validation at the head of sendMessage (lines 147-154).
SendVerdict(value, max) ==
    LET messageText == Trim(value)
    IN  IF messageText = <<>> THEN "empty"
        ELSE IF Len(messageText) > max THEN "tooLong"
        ELSE "post"

\* sendMessage, `if (!messageText) return`.
SendEmpty ==
    /\ CanSubmit
    /\ SendVerdict(draft, maxMessageLength) = "empty"
    /\ lastSend' = "empty"
    /\ UNCHANGED <<config, formatted, thrown, convo, store, poller, inflight, sender,
                   notices>>

\* sendMessage, the length check: showError and return.
SendTooLong ==
    /\ CanSubmit
    /\ SendVerdict(draft, maxMessageLength) = "tooLong"
    /\ Len(notices) < MaxNotices
    /\ notices' = showError(notices, TooLongText(maxMessageLength))
    /\ lastSend' = "none"
    /\ UNCHANGED <<config, formatted, thrown, convo, store, poller, inflight, sender>>

\* sendMessage, up to `await fetch(... POST ...)`: the controls are disabled
\* and the body is built from this.offerId and the trimmed text.
SendPost ==
    /\ CanSubmit
    /\ SendVerdict(draft, maxMessageLength) = "post"
    /\ Outstanding < MaxInFlight
    /\ disabled' = TRUE
    /\ focused' = FALSE
    /\ sending' = [phase |-> "post", offer_id |-> offerId,
                   message_text |-> Trim(draft), value |-> draft]
    /\ lastSend' = "none"
    /\ UNCHANGED <<config, formatted, thrown, convo, store, poller, inflight, draft,
                   notices>>

\* sendMessage re-enabling the controls as soon as the POST is ok, before
\* the follow-up loadMessages has returned.
PostOkEnablesEarly ==
    /\ sending.phase = "post"
    /\ draft' = <<>>
    /\ inflight' = Issue(LoadRequest("send", offerId))
    /\ sending' = [sending EXCEPT !.phase = "refresh"]
    /\ disabled' = FALSE
    /\ lastSend' = "none"
    /\ UNCHANGED <<config, formatted, thrown, convo, store, poller, focused, notices>>

\* sendMessage, the POST is ok: clear the input and await loadMessages.
PostOk ==
    /\ sending.phase = "post"
    /\ draft' = <<>>
    /\ inflight' = Issue(LoadRequest("send", offerId))
    /\ sending' = [sending EXCEPT !.phase = "refresh"]
    /\ lastSend' = "none"
    /\ UNCHANGED <<config, formatted, thrown, convo, store, poller, disabled, focused,
                   notices>>

\* sendMessage clearing the input on the failure path as well.
PostFailClearsInput ==
    /\ sending.phase = "post"
    /\ Len(notices) < MaxNotices
    /\ notices' = showError(notices, SendErrorText)
    /\ disabled' = FALSE
    /\ focused' = focusInput(FALSE, focused)
    /\ sending' = NoSend
    /\ draft' = <<>>
    /\ lastSend' = "none"
    /\ UNCHANGED <<config, formatted, thrown, convo, store, poller, inflight>>

\* sendMessage re-enabling the controls at the end of its try block
\* instead of in a finally block: a failed POST leaves them disabled.
PostFailLeavesDisabled ==
    /\ sending.phase = "post"
    /\ Len(notices) < MaxNotices
    /\ notices' = showError(notices, SendErrorText)
    /\ sending' = NoSend
    /\ lastSend' = "none"
    /\ UNCHANGED <<config, formatted, thrown, convo, store, poller, inflight, draft,
                   disabled, focused>>

\* sendMessage, the POST rejects or is not ok: catch, then finally.
PostFail ==
    /\ sending.phase = "post"
    /\ Len(notices) < MaxNotices
    /\ notices' = showError(notices, SendErrorText)
    /\ disabled' = FALSE
    /\ focused' = focusInput(FALSE, focused)
    /\ sending' = NoSend
    /\ lastSend' = "none"
    /\ UNCHANGED <<config, formatted, thrown, convo, store, poller, inflight, draft>>

\* ------------------------------------------------------------ error notice
\* Timeouts of equal delay run in the order they were armed, so notices
\* fade oldest first and are removed oldest first.
\* The 3000 ms timeout of showError: start the slide-out animation.
NoticeFade ==
    /\ \E i \in 1..Len(notices) :
          /\ notices[i].phase = "shown"
          /\ \A j \in 1..(i - 1) : notices[j].phase = "fading"
          /\ notices' = [notices EXCEPT ![i].phase = "fading"]
    /\ UNCHANGED <<lastSend, config, formatted, thrown, convo, store, poller, inflight, sender>>

\* showError hiding the element when the animation ends instead of removing
\* it from the document.
NoticeRemoveHidesOnly ==
    /\ notices # <<>>
    /\ Head(notices).phase = "fading"
    /\ notices' = [notices EXCEPT ![1].phase = "hidden"]
    /\ UNCHANGED <<lastSend, config, formatted, thrown, convo, store, poller, inflight, sender>>

\* The nested 300 ms timeout: errorDiv.remove().
NoticeRemove ==
    /\ notices # <<>>
    /\ Head(notices).phase = "fading"
    /\ notices' = Tail(notices)
    /\ UNCHANGED <<lastSend, config, formatted, thrown, convo, store, poller, inflight, sender>>

\* ----------------------------------------------------------- specification
Next ==
    \/ \E id \in ConvIds, viewer \in Viewers : Open(id, viewer)
    \/ \E id \in ConvIds, viewer \in Viewers : OpenInert(id, viewer)
    \/ Close
    \/ CloseInert
    \/ Destroy
    \/ DestroyInert
    \/ PollTick
    \/ \E req \in LoadRequests :
          \E data \in ServerLists(req.offer_id) : LoadMessagesOk(req, data)
    \/ \E req \in LoadRequests : LoadMessagesFail(req)
    \/ \E c \in DraftChars : TypeDraft(Append(draft, c))
    \/ draft # <<>> /\ TypeDraft(SubSeq(draft, 1, Len(draft) - 1))
    \/ SendEmpty
    \/ SendTooLong
    \/ SendPost
    \/ PostOk
    \/ PostFail
    \/ NoticeFade
    \/ NoticeRemove

Spec == Init /\ [][Next]_vars

\* The widget driven through its lifecycle and its poll scheduler only:
\* the host page calls open, close, destroy, startPolling and stopPolling
\* in any order, and nobody types or sends.
NextScheduler ==
    \/ \E id \in ConvIds, viewer \in Viewers : Open(id, viewer)
    \/ \E id \in ConvIds, viewer \in Viewers : OpenInert(id, viewer)
    \/ Close
    \/ CloseInert
    \/ Destroy
    \/ DestroyInert
    \/ StartPollingCall
    \/ StopPollingCall
    \/ PollTick
    \/ \E req \in LoadRequests :
          \E data \in ServerLists(req.offer_id) : LoadMessagesOk(req, data)
    \/ \E req \in LoadRequests : LoadMessagesFail(req)
    \/ NoticeFade
    \/ NoticeRemove

SpecScheduler == Init /\ [][NextScheduler]_vars

\* formatTime on its own: called for any timestamp at any clock reading.
FormatTime(timestamp, now) ==
    /\ formatted' = [timestamp |-> timestamp, now |-> now,
                     label |-> formatTime(timestamp, now)]
    /\ UNCHANGED <<config, thrown, convo, store, poller, inflight, sender,
                   notices, lastSend>>

NextFormat == \E timestamp \in Timestamps, now \in Nows : FormatTime(timestamp, now)

SpecFormat == Init /\ [][NextFormat]_vars

\* Scheduling: a timeout armed with setTimeout runs once its delay has
\* passed, so the two timeouts of showError are never postponed for ever.
Fairness ==
    /\ WF_vars(NoticeFade)
    /\ WF_vars(NoticeRemove)

SpecLive == SpecScheduler /\ Fairness

TypeOK ==
    /\ modal \in BOOLEAN
    /\ thrown \in BOOLEAN
    /\ display \in {"none", "flex"}
    /\ offerId \in ConvIds \cup {Null}
    /\ currentUser \in Viewers \cup {Null}
    /\ pollingInterval \in 0..MaxTimers
    /\ timers \subseteq 1..MaxTimers
    /\ BagToSet(inflight) \subseteq LoadRequests
    /\ Outstanding <= MaxInFlight
    /\ draft \in Drafts
    /\ disabled \in BOOLEAN
    /\ focused \in BOOLEAN
    /\ Len(notices) <= MaxNotices
    /\ formatted.label.text \in {"", "Just now", "m ago", "h ago", "date"}

\* ------------------------------------------------------------------ claims
OpenInFlight == \E id \in ConvIds : BagIn(LoadRequest("open", id), inflight)

\* C1: whenever the widget is Closed (conversation id cleared) no interval
\* timer is active; in particular open() followed at once by close() leaves
\* no timer once open's initial fetch has resolved.
NoLeakedPollTimer == offerId = Null => timers = {}

\* C2: a fetch issued for a conversation that is no longer the active one
\* when it resolves replaces neither the Message Collection nor the view.
StaleResultDiscarded ==
    [][\A req \in LoadRequests :
          (/\ req.offer_id # offerId
           /\ \E data \in ServerLists(req.offer_id) : LoadMessagesOk(req, data))
          => (messages' = messages /\ view' = view)]_vars

\* C3: open() on a widget that is Open for another conversation stops the
\* previous poll timer before it activates the new one: when the call
\* suspends at its initial fetch no timer is active, so no tick of the
\* previous timer can fire while that fetch is in flight.
SwitchStopsOldPollerFirst ==
    [][\A id \in ConvIds, viewer \in Viewers :
          (offerId \in ConvIds /\ offerId # id /\ Open(id, viewer))
          => timers' = {}]_vars

\* C4: at most one interval timer is active, and it is the one the widget's
\* handle references: after startPolling() (any number of times in a row)
\* exactly one, after stopPolling() none.
AtMostOnePollTimer ==
    /\ Cardinality(timers) <= 1
    /\ timers = IF pollingInterval = NoTimer THEN {} ELSE {pollingInterval}

\* C4 witness: startPolling has run: exactly one timer is active, the one the
\* handle references, for an open conversation whose messages were fetched.
PollTimerRunning ==
    /\ pollingInterval # NoTimer
    /\ timers = {pollingInterval}
    /\ offerId \in ConvIds
    /\ messages # <<>>

MarkupChars == {"&", "<", ">"}
IsInert(markup) == \A i \in 1..Len(markup) : markup[i] \notin MarkupChars
IsBlank(text)   == \A i \in 1..Len(text) : IsSpace(text[i])
Raised(text)    == notices' = Append(notices, [text |-> text, phase |-> "shown"])
HasNotice(text) == \E i \in 1..Len(notices) : notices[i].text = text

\* A call of sendMessage, whichever way it leaves its validation.
SendCall == SendEmpty \/ SendTooLong \/ SendPost

\* C5: the markup the renderer produces holds every message text in escaped
\* form only: no markup-significant character of a text reaches the view.
MessageTextInert ==
    \A i \in 1..Len(view.entries) : IsInert(view.entries[i].content)

\* C6: a failed fetch leaves the Message Collection and the view as they
\* are, raises exactly one load-error notice, lets no exception escape and
\* leaves polling on: a timer that was active is still active, and open's
\* initial fetch failing still starts the timer.
FailedRefreshRecoverable ==
    [][\A req \in LoadRequests :
          LoadMessagesFail(req)
          => /\ messages' = messages
             /\ view' = view
             /\ Raised(LoadErrorText)
             /\ thrown' = thrown
             /\ timers # {} => timers' # {}
             /\ req.kind = "open" => timers' # {}
             /\ req.kind # "open" => timers' = timers]_vars

\* C6 witness: a refresh of an open conversation has failed; the messages
\* fetched before are still held and shown, and the poll timer is running.
RefreshFailedPollingOn ==
    /\ HasNotice(LoadErrorText)
    /\ messages # <<>>
    /\ view = renderMessages(view, messages, currentUser)
    /\ offerId \in ConvIds
    /\ timers # {}

\* C7: a send whose draft is empty or whitespace only issues no network
\* request, raises no notice and leaves the controls enabled.
EmptySendIgnored ==
    [][(SendCall /\ IsBlank(draft))
          => /\ inflight' = inflight
             /\ sending' = sending
             /\ notices' = notices
             /\ ~disabled']_vars

\* C7 witness: sendMessage has just returned on a whitespace-only draft.
BlankSendReturned ==
    /\ lastSend = "empty"
    /\ draft # <<>>
    /\ IsBlank(draft)
    /\ sending = NoSend
    /\ ~disabled

\* C8 as claimed: a send whose text is longer than maxMessageLength issues
\* no network request and raises a notice citing the configured maximum.
OverLengthSendRejectedRaw ==
    [][(SendCall /\ Len(draft) > maxMessageLength)
          => /\ inflight' = inflight
             /\ sending' = sending
             /\ Raised(TooLongText(maxMessageLength))]_vars

\* C8: a send whose text, once trimmed of leading and trailing whitespace,
\* is longer than maxMessageLength issues no network request and raises a
\* notice citing the configured maximum.
OverLengthSendRejected ==
    [][(SendCall /\ Len(Trim(draft)) > maxMessageLength)
          => /\ inflight' = inflight
             /\ sending' = sending
             /\ ~disabled'
             /\ Raised(TooLongText(maxMessageLength))]_vars

\* C8 witness: the over-length draft is still in the input, the notice
\* citing the maximum is up and nothing was sent.
OverLengthNoticeUp ==
    /\ Len(Trim(draft)) > maxMessageLength
    /\ HasNotice(TooLongText(maxMessageLength))
    /\ sending = NoSend
    /\ ~disabled

\* C9 as claimed: a send whose POST succeeds clears the input and issues a
\* refresh; a send whose POST fails issues no refresh, raises a notice, and
\* the input holds the original text when the send completes.
SendOutcomeKeepsOriginal ==
    [][/\ PostOk => /\ draft' = <<>>
                    /\ inflight' = Issue(LoadRequest("send", offerId))
       /\ PostFail => /\ inflight' = inflight
                      /\ Raised(SendErrorText)
                      /\ draft' = sending.value]_vars

\* C9: a send whose POST succeeds clears the input and issues a refresh; a
\* send whose POST fails issues no refresh, raises a notice and leaves the
\* input as it finds it: holding the original text, or empty when close()
\* or destroy() cleared it while the POST was in flight.
SendOutcomeKeepsInput ==
    [][/\ PostOk => /\ draft' = <<>>
                    /\ inflight' = Issue(LoadRequest("send", offerId))
       /\ PostFail => /\ inflight' = inflight
                      /\ Raised(SendErrorText)
                      /\ draft' = draft
                      /\ draft \in {sending.value, <<>>}]_vars

\* C9 witness: a send has failed and the draft is still in the input.
FailedSendDraftKept ==
    /\ HasNotice(SendErrorText)
    /\ sending = NoSend
    /\ ~disabled
    /\ Trim(draft) # <<>>
    /\ display = "flex"

\* C10: while a send is outstanding (its POST or its follow-up refresh has
\* not completed) the input and the send button are disabled, so the
\* controls cannot start a second send.
NoDuplicateSubmission ==
    sending.phase # "idle" => (disabled /\ ~CanSubmit)

\* C10 witness: the POST of a send succeeded and its follow-up refresh is in
\* flight, with the controls still disabled.
SendAwaitingRefresh ==
    /\ sending.phase = "refresh"
    /\ \E id \in ConvIds : BagIn(LoadRequest("send", id), inflight)
    /\ disabled

\* C11: every send that disabled the controls re-enables both and gives
\* the input the focus back once its round trips have completed, whether
\* the POST succeeded or failed and whatever open() and close() did since.
\* The controls are disabled only while a send is outstanding, and the step
\* that completes the send (the POST failing, or the follow-up refresh
\* returning) leaves both enabled and the input focused.
ControlsReenabled ==
    /\ [](disabled => sending # NoSend)
    /\ [][(sending # NoSend /\ sending' = NoSend)
             => (~disabled' /\ focused')]_vars

\* C11 witness: a send failed after the widget had been closed under it;
\* the controls are enabled again and the input was given the focus.
ReenabledAfterClose ==
    /\ HasNotice(SendErrorText)
    /\ offerId = Null
    /\ sending = NoSend
    /\ ~disabled
    /\ focused

\* C12: every fetch that completes successfully installs its data as the
\* Message Collection and as the view, whatever other fetches are still in
\* flight and in whatever order they were issued, and nothing else changes
\* the collection or the view: after several overlapping fetches have all
\* resolved, both hold the data of the one that completed last.
LastCompletedFetchWins ==
    [][/\ \A req \in LoadRequests : \A data \in ServerLists(req.offer_id) :
             LoadMessagesOk(req, data)
             => /\ messages' = data
                /\ view' = renderMessages(view, data, currentUser)
       /\ (messages' # messages \/ view' # view)
             => \E req \in LoadRequests : \E data \in ServerLists(req.offer_id) :
                   LoadMessagesOk(req, data)]_vars

\* C12 witness: a poll tick and a send's follow-up refresh for the active
\* conversation are in flight together, over a collection that an earlier
\* fetch installed.
OverlappingFetches ==
    /\ offerId \in ConvIds
    /\ BagIn(LoadRequest("poll", offerId), inflight)
    /\ BagIn(LoadRequest("send", offerId), inflight)
    /\ messages = <<Msg1(offerId), Msg2(offerId)>>

\* open(id, ...) on a widget that is Open for another conversation.
SwitchTo(id) ==
    /\ offerId \in ConvIds
    /\ offerId # id
    /\ \E viewer \in Viewers : Open(id, viewer)

\* C13: the Message Collection is empty immediately after close() returns
\* and immediately after open() has activated a different conversation.
CollectionClearedOnCloseAndSwitch ==
    [][(Close \/ \E id \in ConvIds : SwitchTo(id)) => messages' = <<>>]_vars

\* The part of the state close() and destroy() write.
Lifecycle ==
    [pollingInterval |-> pollingInterval, timers |-> timers,
     display |-> display, offerId |-> offerId, draft |-> draft]

\* What close() makes of that part (without the container line 110 throws
\* before anything is written), and what destroy() makes of it:
\* stopPolling(), then close().
close(s) ==
    IF ~modal THEN s
    ELSE LET stopped == stopPolling(s.pollingInterval, s.timers)
         IN  [pollingInterval |-> stopped.pollingInterval,
              timers |-> stopped.timers,
              display |-> "none", offerId |-> Null, draft |-> <<>>]
destroy(s) ==
    LET stopped == stopPolling(s.pollingInterval, s.timers)
    IN  close([s EXCEPT !.pollingInterval = stopped.pollingInterval,
                        !.timers = stopped.timers])

\* C14: from every reachable state close() yields a state with no active
\* timer, a cleared conversation id and an empty draft; close() applied to
\* that state changes nothing; and destroy() yields the state close()
\* yields.
CloseIdempotentDestroyEquivalent ==
    /\ [](LET closed == close(Lifecycle)
          IN  /\ closed.timers = {}
              /\ closed.offerId = Null
              /\ closed.draft = <<>>
              /\ close(closed) = closed
              /\ destroy(Lifecycle) = closed)
    /\ [][/\ (Close \/ CloseInert) => Lifecycle' = close(Lifecycle)
          /\ (Destroy \/ DestroyInert) => Lifecycle' = destroy(Lifecycle)]_vars

\* C15: open() clears any draft text pending in the input, whether it is
\* called on a Closed widget or on an Open one.
OpenResetsDraft ==
    [][(\E id \in ConvIds, viewer \in Viewers : Open(id, viewer))
          => draft' = <<>>]_vars

\* C16: a widget constructed without its container is inert: no call to
\* open(), close() or destroy() starts a timer, issues a network request or
\* lets an exception reach the caller.
MissingContainerInert ==
    ~modal => (~thrown /\ timers = {} /\ inflight = EmptyBag)

\* C17: with elapsed = now - sentAt in milliseconds, the label is "Just now"
\* under one minute, the whole minutes elapsed followed by "m ago" under 60
\* minutes, the whole hours elapsed followed by "h ago" under 24 hours, and
\* the calendar date of sentAt otherwise.
RelativeTimeLabels ==
    formatted # NotFormatted =>
        LET elapsed   == formatted.now - formatted.timestamp
            MsPerHour == MinutesPerHour * MsPerMinute
        IN  formatted.label =
               IF elapsed < MsPerMinute THEN JustNow
               ELSE IF elapsed < MsPerHour
                    THEN Ago(elapsed \div MsPerMinute, "m ago")
               ELSE IF elapsed < HoursPerDay * MsPerHour
                    THEN Ago(elapsed \div MsPerHour, "h ago")
               ELSE DateLabel(formatted.timestamp)

\* C17 witness: a timestamp 90 minutes old was labelled "1h ago".
NinetyMinutesAgo ==
    /\ formatted.now - formatted.timestamp = 90 * MsPerMinute
    /\ formatted.label = Ago(1, "h ago")

\* C18: a render that runs with an empty Message Collection leaves the
\* empty-state placeholder and no message entry in the view; a render that
\* runs with a non-empty collection leaves exactly one entry per message,
\* in collection order.
EmptyStateOrOneEntryPerMessage ==
    [][(modal /\ \E req \in LoadRequests :
                    \E data \in ServerLists(req.offer_id) : LoadMessagesOk(req, data))
          => /\ messages' = <<>>
                  => (view'.kind = "chat-empty" /\ view'.entries = <<>>)
             /\ messages' # <<>>
                  => /\ view'.kind = "list"
                     /\ Len(view'.entries) = Len(messages')
                     /\ \A i \in 1..Len(messages') :
                           /\ view'.entries[i].content = messages'[i].message_text
                           /\ view'.entries[i].sender =
                                 escapeHtml(messages'[i].sender_name)]_vars

\* C18 witness: an open conversation without messages shows the
\* placeholder.
EmptyStateShown ==
    /\ offerId \in ConvIds
    /\ display = "flex"
    /\ messages = <<>>
    /\ view.kind = "chat-empty"

\* The initial refresh of some open() call returns, successfully or not.
InitialLoadReturns ==
    \E req \in LoadRequests :
       /\ req.kind = "open"
       /\ \/ \E data \in ServerLists(req.offer_id) : LoadMessagesOk(req, data)
          \/ LoadMessagesFail(req)

\* C19: open() starts no timer when it is called; the poll timer is started
\* by the step in which open's initial refresh returns, whether the refresh
\* succeeded or failed, and by no other step: no tick of the new timer can
\* precede that return.
InitialLoadBeforePolling ==
    [][/\ (\E id \in ConvIds, viewer \in Viewers : Open(id, viewer))
             => UNCHANGED poller
       /\ InitialLoadReturns
             => (pollingInterval' # NoTimer /\ pollingInterval' \in timers')
       /\ ~(timers' \subseteq timers) => InitialLoadReturns]_vars

\* C19 witness: the initial refresh of open() failed (no fetch has ever
\* succeeded) and the poll timer is running.
PollingAfterFailedInitialLoad ==
    /\ offerId \in ConvIds
    /\ view = InitialView
    /\ HasNotice(LoadErrorText)
    /\ pollingInterval # NoTimer
    /\ timers = {pollingInterval}

NoRequestWithoutConversation ==
    /\ \A req \in BagToSet(inflight) : req.offer_id # Null
    /\ sending.phase = "post" => sending.offer_id # Null

====
